---- MODULE Spec2Model ----
(***************************************************************************)
(* Model of the to-do list application: the TodoList client component      *)
(* (src/components/TodoList.tsx) together with the "todos" table it talks  *)
(* to.  Every async handler is split at its `await`: the part before the   *)
(* await issues the store request and captures the render's closure, the   *)
(* part after it runs when the store answers.                              *)
(*                                                                         *)
(* Strings are sequences of one-character strings, so that trim() is       *)
(* computed and not assumed.                                               *)
(***************************************************************************)
EXTENDS Integers, Sequences, FiniteSets, TLC

\* ------------------------------------------------------------------ bounds
\* Number of store requests one component instance issues.
MaxRequests == 2

\* ------------------------------------------------------------------ values
\* JavaScript null (description: string | null, editingId: string | null).
\* Ids are positive naturals, strings are sequences over characters, so
\* neither value below equals a real id or a real string.
NullId == 0
NULL == <<"null">>

\* The signed-in user's id (user.id).
UserId == "u1"

\* What the user types into the create form and the edit form.
TitleInputs == { <<>>, <<" ">>, <<" ", "a", " ">> }
DescriptionInputs == { <<>>, <<" ">>, <<"d", " ">> }

\* How many rows the table holds when the dashboard page is loaded.
InitialRowCounts == { 0, 1 }

\* ------------------------------------------------------------------ String.prototype.trim
IsSpace(c) == c = " "

RECURSIVE TrimStart(_)
TrimStart(s) ==
    IF s = <<>> THEN <<>>
    ELSE IF IsSpace(Head(s)) THEN TrimStart(Tail(s))
    ELSE s

RECURSIVE TrimEnd(_)
TrimEnd(s) ==
    IF s = <<>> THEN <<>>
    ELSE IF IsSpace(s[Len(s)]) THEN TrimEnd(SubSeq(s, 1, Len(s) - 1))
    ELSE s

Trim(s) == TrimEnd(TrimStart(s))

\* `x.trim() || null`
TrimOrNull(s) == IF Trim(s) = <<>> THEN NULL ELSE Trim(s)

\* Variant: `todo.description`, the `|| ''` dropped
OrEmptyKeepsNull(d) == d

\* `todo.description || ''`
OrEmpty(d) == IF d = NULL \/ d = <<>> THEN <<>> ELSE d

\* getUser() found no session.
NoUser == ""

\* Another user of the same table.
OtherUserId == "u2"

\* A query parameter as searchParams.get() returns it: <<>> for null (the
\* parameter is absent), <<v>> for the string v.
Codes == { <<>>, <<"">>, <<"good">>, <<"bad">> }
Types == { <<>>, <<"">>, <<"recovery">>, <<"Recovery">>, <<"signup">> }

\* The codes the Session Provider accepts.
ValidCodes == { "good" }

\* ------------------------------------------------------------------ state
VARIABLES
    todos,            \* useState<Todo[]>(initialTodos)
    title,            \* create form: title
    description,      \* create form: description
    editingId,        \* id of the record shown in edit view, or NullId
    editTitle,        \* edit form: title
    editDescription,  \* edit form: description
    loading,          \* the shared busy flag
    inflight,         \* store requests issued and not yet answered
    store,            \* rows of the "todos" table
    nextId,           \* next id the table assigns
    clock,            \* wall clock, advanced by every request
    calls,            \* number of store requests issued so far
    event,            \* the handler step that produced this state
    session,          \* the user the Session Provider holds a session for
    request           \* the page request being served, or its response

vars == << todos, title, description, editingId, editTitle, editDescription,
           loading, inflight, store, nextId, clock, calls, event,
           session, request >>

component == << todos, title, description, editingId, editTitle,
                editDescription, loading >>

remote == << store, nextId, clock, calls, inflight >>

server == << session, request >>

\* ------------------------------------------------------------------ the "todos" table
\* A row present before the component is mounted.
SeedRow(i) ==
    [ id          |-> i,
      title       |-> <<"s">>,
      description |-> IF i % 2 = 0 THEN <<"d">> ELSE NULL,
      completed   |-> (i % 2 = 0),
      user_id     |-> UserId,
      created_at  |-> i,
      updated_at  |-> i ]

\* A row of another user, older than every row of the signed-in user.
ForeignRow ==
    [ id          |-> -1,
      title       |-> <<"x">>,
      description |-> NULL,
      completed   |-> FALSE,
      user_id     |-> OtherUserId,
      created_at  |-> 0,
      updated_at  |-> 0 ]

\* insert([...]).select().single(): the table assigns id and both timestamps.
InsertedRow(fields, id, now) ==
    [ id          |-> id,
      title       |-> fields.title,
      description |-> fields.description,
      completed   |-> fields.completed,
      user_id     |-> fields.user_id,
      created_at  |-> now,
      updated_at  |-> now ]

\* update({title, description, updated_at}) applied to one row.
EditedRow(row, fields) ==
    [ row EXCEPT !.title       = fields.title,
                 !.description = fields.description,
                 !.updated_at  = fields.updated_at ]

\* update({completed, updated_at}) applied to one row.
ToggledRow(row, fields) ==
    [ row EXCEPT !.completed  = fields.completed,
                 !.updated_at = fields.updated_at ]

\* .eq('id', id)
RowsWithId(rows, id) == { r \in rows : r.id = id }

\* .single() answers with an error unless exactly one row comes back.
SingleRow(rows) == Cardinality(rows) = 1

\* .eq('user_id', user.id).order('created_at', { ascending: false })
RECURSIVE OrderByCreatedDesc(_)
OrderByCreatedDesc(rows) ==
    IF rows = {} THEN <<>>
    ELSE LET newest == CHOOSE r \in rows :
                           \A q \in rows : q.created_at <= r.created_at
         IN  <<newest>> \o OrderByCreatedDesc(rows \ {newest})

\* Variant: the .eq('user_id', user.id) filter dropped
InitialTodosUnfiltered(rows, fetchError) ==
    IF fetchError THEN <<>> ELSE OrderByCreatedDesc(rows)

\* Variant: the rows handed over although the select answered with an error
InitialTodosDespiteError(rows, fetchError) ==
    OrderByCreatedDesc({ r \in rows : r.user_id = UserId })

\* What the dashboard page hands to the component: `todos || []`.
InitialTodos(rows, fetchError) ==
    IF fetchError THEN <<>>
    ELSE OrderByCreatedDesc({ r \in rows : r.user_id = UserId })

\* ------------------------------------------------------------------ list reconciliation
\* Variant: setTodos([...todos, data])
PrependAtEnd(data, list) == list \o <<data>>

\* setTodos([data, ...todos])
Prepend(data, list) == <<data>> \o list

\* Variant: todos.map(() => data), the id test dropped
ReplaceEvery(list, id, data) == [ i \in 1..Len(list) |-> data ]

\* setTodos(todos.map((todo) => (todo.id === id ? data : todo)))
ReplaceById(list, id, data) ==
    [ i \in 1..Len(list) |-> IF list[i].id = id THEN data ELSE list[i] ]

\* Variant: todos.filter((todo) => todo.id === id)
KeepById(list, id) == SelectSeq(list, LAMBDA t : t.id = id)

\* setTodos(todos.filter((todo) => todo.id !== id))
RECURSIVE RemoveById(_, _)
RemoveById(list, id) ==
    IF list = <<>> THEN <<>>
    ELSE IF Head(list).id = id THEN RemoveById(Tail(list), id)
    ELSE <<Head(list)>> \o RemoveById(Tail(list), id)

\* ------------------------------------------------------------------ observation
NoArg  == [ id |-> NullId ]
NoCall == [ rid |-> 0 ]
NoData == [ id |-> NullId ]

\* A handler step that returns without issuing a store call.
Local(name, arg) ==
    [ name |-> name, phase |-> "return", arg |-> arg, call |-> NoCall,
      error |-> FALSE, data |-> NoData ]

\* A handler step that issues a store call and suspends at its await.
Issued(name, arg, call) ==
    [ name |-> name, phase |-> "await", arg |-> arg, call |-> call,
      error |-> FALSE, data |-> NoData ]

\* The continuation of a handler after its await.
Resumed(name, call, error, data) ==
    [ name |-> name, phase |-> "resume", arg |-> NoArg, call |-> call,
      error |-> error, data |-> data ]

\* ------------------------------------------------------------------ rendering
\* disabled={loading} on each control.
CreateInputsEnabled == ~loading
SubmitEnabled       == ~loading
EditInputsEnabled   == ~loading
SaveEnabled         == ~loading
CancelEnabled       == ~loading
CheckboxAlwaysEnabled == TRUE
CheckboxEnabled     == ~loading
EditEnabled         == ~loading
DeleteEnabled       == ~loading

\* The rows on screen: one per entry of todos.
Rendered == { todos[i] : i \in 1..Len(todos) }

\* editingId === todo.id ? <edit view> : <normal view>
InEditView(todo)   == editingId = todo.id
\* Variant: the display view, with its Delete button, shown for every record
EveryViewNormal(todo) == TRUE

InNormalView(todo) == editingId # todo.id

\* ------------------------------------------------------------------ page requests
NoResponse     == [ kind |-> "none", to |-> "" ]
Redirect(path) == [ kind |-> "redirect", to |-> path ]
Page           == [ kind |-> "page", to |-> "/dashboard" ]

\* A request as it reaches its handler.
NewRequest(route, code, type) ==
    [ route     |-> route,
      pc        |-> "start",
      code      |-> code,
      type      |-> type,
      exchanges |-> 0,
      queries   |-> 0,
      user      |-> NoUser,
      error     |-> FALSE,
      response  |-> NoResponse ]

\* The dashboard request once the page is rendered for the signed-in user;
\* `fetchError` is the error of its select.
RenderedRequest(fetchError) ==
    [ NewRequest("dashboard", <<>>, <<>>) EXCEPT
        !.pc       = "done",
        !.queries  = 1,
        !.user     = UserId,
        !.error    = fetchError,
        !.response = Page ]

\* `if (code)`: null and the empty string are falsy.
Truthy(param) == param # <<>> /\ param[1] # ""

\* Variant: `if (type)`, any type taken for a recovery
CallbackTargetAnyType(type) ==
    IF type # <<>> /\ type[1] # "" THEN "/reset-password" ELSE "/dashboard"

\* type === 'recovery' ? `${origin}/reset-password` : `${origin}/dashboard`
CallbackTarget(type) ==
    IF type = <<"recovery">> THEN "/reset-password" ELSE "/dashboard"

\* ------------------------------------------------------------------ initial state
\* The component as the dashboard page has just rendered it.
Init ==
    \E n \in InitialRowCounts, fetchError \in BOOLEAN :
        /\ store = { SeedRow(i) : i \in 1..n } \cup { ForeignRow }
        /\ session = UserId
        /\ request = RenderedRequest(fetchError)
        /\ nextId = n + 1
        /\ clock = n
        /\ todos = InitialTodos(store, fetchError)
        /\ title = <<>>
        /\ description = <<>>
        /\ editingId = NullId
        /\ editTitle = <<>>
        /\ editDescription = <<>>
        /\ loading = FALSE
        /\ inflight = {}
        /\ calls = 0
        /\ event = Local("mount", NoArg)

\* ------------------------------------------------------------------ form fields
setTitle ==
    /\ CreateInputsEnabled
    /\ \E v \in TitleInputs \ {title} : title' = v
    /\ event' = Local("onChange", NoArg)
    /\ UNCHANGED << todos, description, editingId, editTitle, editDescription,
                    loading, remote, server >>

setDescription ==
    /\ CreateInputsEnabled
    /\ \E v \in DescriptionInputs \ {description} : description' = v
    /\ event' = Local("onChange", NoArg)
    /\ UNCHANGED << todos, title, editingId, editTitle, editDescription,
                    loading, remote, server >>

setEditTitle ==
    /\ EditInputsEnabled
    /\ \E todo \in Rendered : InEditView(todo)
    /\ \E v \in TitleInputs \ {editTitle} : editTitle' = v
    /\ event' = Local("onChange", NoArg)
    /\ UNCHANGED << todos, title, description, editingId, editDescription,
                    loading, remote, server >>

setEditDescription ==
    /\ EditInputsEnabled
    /\ \E todo \in Rendered : InEditView(todo)
    /\ \E v \in DescriptionInputs \ {editDescription} : editDescription' = v
    /\ event' = Local("onChange", NoArg)
    /\ UNCHANGED << todos, title, description, editingId, editTitle,
                    loading, remote, server >>

\* ------------------------------------------------------------------ start / cancel edit
startEdit ==
    /\ EditEnabled
    /\ \E todo \in Rendered :
        /\ InNormalView(todo)
        /\ editingId' = todo.id
        /\ editTitle' = todo.title
        /\ editDescription' = OrEmpty(todo.description)
    /\ event' = Local("startEdit", NoArg)
    /\ UNCHANGED << todos, title, description, loading, remote, server >>

cancelEdit ==
    /\ CancelEnabled
    /\ \E todo \in Rendered : InEditView(todo)
    /\ editingId' = NullId
    /\ editTitle' = <<>>
    /\ editDescription' = <<>>
    /\ event' = Local("cancelEdit", NoArg)
    /\ UNCHANGED << todos, title, description, loading, remote, server >>

\* ------------------------------------------------------------------ store answers
\* The answer { data, error } of a call, and the table after it.  `failure`
\* is a failure of the transport or of the service.
InsertAnswer(fields, failure) ==
    IF failure
    THEN [ error |-> TRUE, data |-> NoData, rows |-> store ]
    ELSE LET row == InsertedRow(fields, nextId, clock)
         IN  [ error |-> FALSE, data |-> row, rows |-> store \cup {row} ]

UpdateAnswer(id, fields, failure) ==
    LET hit == RowsWithId(store, id)
    IN  IF failure \/ ~SingleRow(hit)
        THEN [ error |-> TRUE, data |-> NoData, rows |-> store ]
        ELSE LET row == EditedRow(CHOOSE r \in hit : TRUE, fields)
             IN  [ error |-> FALSE, data |-> row, rows |-> (store \ hit) \cup {row} ]

ToggleAnswer(id, fields, failure) ==
    LET hit == RowsWithId(store, id)
    IN  IF failure \/ ~SingleRow(hit)
        THEN [ error |-> TRUE, data |-> NoData, rows |-> store ]
        ELSE LET row == ToggledRow(CHOOSE r \in hit : TRUE, fields)
             IN  [ error |-> FALSE, data |-> row, rows |-> (store \ hit) \cup {row} ]

DeleteAnswer(id, failure) ==
    IF failure
    THEN [ error |-> TRUE, data |-> NoData, rows |-> store ]
    ELSE [ error |-> FALSE, data |-> NoData, rows |-> store \ RowsWithId(store, id) ]

\* A call as it leaves the handler: the request, and the `todos` the handler's
\* closure holds (the list of the render the handler was created in).
Call(op, id, fields) ==
    [ rid |-> calls + 1, op |-> op, id |-> id, fields |-> fields, todos |-> todos ]

\* Variant: setLoading(false) placed after the error return
StaysLoadingOnError(error) == error

\* setLoading(false), the first statement after every await.
LoadingAfterAnswer(error) == FALSE

\* setLoading(true); await supabase.from('todos')...
Issue(call) ==
    /\ calls < MaxRequests
    /\ loading' = TRUE
    /\ inflight' = inflight \cup {call}
    /\ calls' = calls + 1
    /\ clock' = clock + 1
    /\ UNCHANGED << store, nextId, server >>

\* ------------------------------------------------------------------ handleCreate
\* Variant: `title: title`, the trim dropped
CreateFieldsUntrimmed ==
    [ title       |-> title,
      description |-> TrimOrNull(description),
      user_id     |-> UserId,
      completed   |-> FALSE ]

CreateFields ==
    [ title       |-> Trim(title),
      description |-> TrimOrNull(description),
      user_id     |-> UserId,
      completed   |-> FALSE ]

\* Variant: `!title`, the trim dropped
TitleMissingUntrimmed == title = <<>>

\* `!title.trim()`
TitleMissing == Trim(title) = <<>>

\* Lines 32-47: up to the await.
handleCreate ==
    /\ SubmitEnabled
    /\ IF TitleMissing
       THEN /\ event' = Local("handleCreate", NoArg)
            /\ UNCHANGED << component, remote, server >>
       ELSE LET call == Call("insert", NullId, CreateFields)
            IN  /\ Issue(call)
                /\ event' = Issued("handleCreate", NoArg, call)
                /\ UNCHANGED << todos, title, description, editingId,
                                editTitle, editDescription >>

\* Lines 51-57: the list after the answer.
TodosAfterCreate(call, answer) ==
    IF answer.error THEN todos ELSE Prepend(answer.data, call.todos)

\* Lines 49-59: after the await.
handleCreateResume ==
    \E call \in inflight, failure \in BOOLEAN :
        /\ call.op = "insert"
        /\ LET answer == InsertAnswer(call.fields, failure)
           IN  /\ store' = answer.rows
               /\ nextId' = IF answer.error THEN nextId ELSE nextId + 1
               /\ inflight' = inflight \ {call}
               /\ loading' = LoadingAfterAnswer(answer.error)
               /\ todos' = TodosAfterCreate(call, answer)
               /\ IF answer.error
                  THEN UNCHANGED << title, description >>
                  ELSE /\ title' = <<>>
                       /\ description' = <<>>
               /\ event' = Resumed("handleCreate", call, answer.error, answer.data)
        /\ UNCHANGED << editingId, editTitle, editDescription, clock, calls,
                        server >>

\* ------------------------------------------------------------------ handleUpdate
UpdateFields ==
    [ title       |-> Trim(editTitle),
      description |-> TrimOrNull(editDescription),
      updated_at  |-> clock + 1 ]

\* Variant: `!editTitle`, the trim dropped
EditTitleMissingUntrimmed == editTitle = <<>>

\* `!editTitle.trim()`
EditTitleMissing == Trim(editTitle) = <<>>

\* Lines 63-75: up to the await.  Save is rendered in the edit view only.
handleUpdate ==
    /\ SaveEnabled
    /\ \E todo \in Rendered :
        /\ InEditView(todo)
        /\ IF EditTitleMissing
           THEN /\ event' = Local("handleUpdate", NoArg)
                /\ UNCHANGED << component, remote, server >>
           ELSE LET call == Call("update", todo.id, UpdateFields)
                IN  /\ Issue(call)
                    /\ event' = Issued("handleUpdate", [ id |-> todo.id ], call)
                    /\ UNCHANGED << todos, title, description, editingId,
                                    editTitle, editDescription >>

\* Lines 79-85: the list after the answer.
TodosAfterUpdate(call, answer) ==
    IF answer.error THEN todos ELSE ReplaceById(call.todos, call.id, answer.data)

\* Variant: the edit state cleared before the error is looked at
EditClearedAlways(error) ==
    [ id |-> NullId, title |-> <<>>, description |-> <<>> ]

\* Lines 79-88: editingId, editTitle and editDescription after the answer.
EditAfterUpdate(error) ==
    IF error
    THEN [ id |-> editingId, title |-> editTitle, description |-> editDescription ]
    ELSE [ id |-> NullId, title |-> <<>>, description |-> <<>> ]

\* Lines 77-88: after the await.
handleUpdateResume ==
    \E call \in inflight, failure \in BOOLEAN :
        /\ call.op = "update"
        /\ LET answer == UpdateAnswer(call.id, call.fields, failure)
           IN  /\ store' = answer.rows
               /\ inflight' = inflight \ {call}
               /\ loading' = LoadingAfterAnswer(answer.error)
               /\ todos' = TodosAfterUpdate(call, answer)
               /\ editingId' = EditAfterUpdate(answer.error).id
               /\ editTitle' = EditAfterUpdate(answer.error).title
               /\ editDescription' = EditAfterUpdate(answer.error).description
               /\ event' = Resumed("handleUpdate", call, answer.error, answer.data)
        /\ UNCHANGED << title, description, nextId, clock, calls,
                        server >>

\* ------------------------------------------------------------------ handleDelete
\* `!confirm('Are you sure you want to delete this todo?')`
Declined(confirmed) == ~confirmed

\* Lines 92-95: confirm(), then up to the await.
handleDelete ==
    /\ DeleteEnabled
    /\ \E todo \in Rendered, confirmed \in BOOLEAN :
        /\ InNormalView(todo)
        /\ LET arg == [ id |-> todo.id, confirmed |-> confirmed ]
           IN  IF Declined(confirmed)
               THEN /\ event' = Local("handleDelete", [ confirmed |-> confirmed ])
                    /\ UNCHANGED << component, remote, server >>
               ELSE LET call == Call("delete", todo.id, [ id |-> todo.id ])
                    IN  /\ Issue(call)
                        /\ event' = Issued("handleDelete", arg, call)
                        /\ UNCHANGED << todos, title, description, editingId,
                                        editTitle, editDescription >>

\* Variant: the entry removed whatever the answer
TodosAfterDeleteUnchecked(call, answer) ==
    RemoveById(call.todos, call.id)

\* Lines 99-105: the list after the answer.
TodosAfterDelete(call, answer) ==
    IF answer.error THEN todos ELSE RemoveById(call.todos, call.id)

\* Lines 97-105: after the await.
handleDeleteResume ==
    \E call \in inflight, failure \in BOOLEAN :
        /\ call.op = "delete"
        /\ LET answer == DeleteAnswer(call.id, failure)
           IN  /\ store' = answer.rows
               /\ inflight' = inflight \ {call}
               /\ loading' = LoadingAfterAnswer(answer.error)
               /\ todos' = TodosAfterDelete(call, answer)
               /\ event' = Resumed("handleDelete", call, answer.error, answer.data)
        /\ UNCHANGED << title, description, editingId, editTitle,
                        editDescription, nextId, clock, calls,
                        server >>

\* ------------------------------------------------------------------ handleToggleComplete
\* Variant: `completed` sent as it is
ToggleFieldsSame(completed) ==
    [ completed  |-> completed,
      updated_at |-> clock + 1 ]

ToggleFields(completed) ==
    [ completed  |-> ~completed,
      updated_at |-> clock + 1 ]

\* Lines 109-115: up to the await.
handleToggleComplete ==
    /\ CheckboxEnabled
    /\ \E todo \in Rendered :
        /\ InNormalView(todo)
        /\ LET arg  == [ id |-> todo.id, completed |-> todo.completed ]
               call == Call("toggle", todo.id, ToggleFields(todo.completed))
           IN  /\ Issue(call)
               /\ event' = Issued("handleToggleComplete", arg, call)
    /\ UNCHANGED << todos, title, description, editingId, editTitle,
                    editDescription >>

\* Variant: the error test dropped
TodosAfterToggleUnchecked(call, answer) ==
    ReplaceById(call.todos, call.id, answer.data)

\* Lines 119-124: the list after the answer.
TodosAfterToggle(call, answer) ==
    IF answer.error THEN todos ELSE ReplaceById(call.todos, call.id, answer.data)

\* Lines 117-124: after the await.
handleToggleCompleteResume ==
    \E call \in inflight, failure \in BOOLEAN :
        /\ call.op = "toggle"
        /\ LET answer == ToggleAnswer(call.id, call.fields, failure)
           IN  /\ store' = answer.rows
               /\ inflight' = inflight \ {call}
               /\ loading' = LoadingAfterAnswer(answer.error)
               /\ todos' = TodosAfterToggle(call, answer)
               /\ event' = Resumed("handleToggleComplete", call, answer.error,
                                   answer.data)
        /\ UNCHANGED << title, description, editingId, editTitle,
                        editDescription, nextId, clock, calls,
                        server >>

\* ------------------------------------------------------------------ auth callback (route.ts)
\* Lines 4-12: to the await of the exchange, or to the response when there
\* is no code to exchange.
GET ==
    /\ request.route = "callback"
    /\ request.pc = "start"
    /\ IF Truthy(request.code)
       THEN request' = [ request EXCEPT !.pc = "exchange", !.exchanges = 1 ]
       ELSE request' = [ request EXCEPT
                           !.pc = "done",
                           !.response = Redirect(CallbackTarget(request.type)) ]
    /\ UNCHANGED << component, remote, event, session >>

\* Lines 12-21: after the exchange; its error is not looked at.
GETResume ==
    /\ request.route = "callback"
    /\ request.pc = "exchange"
    /\ \E failure \in BOOLEAN :
        LET error == failure \/ request.code[1] \notin ValidCodes
        IN  /\ session' = IF error THEN session ELSE UserId
            /\ request' = [ request EXCEPT
                              !.pc = "done",
                              !.error = error,
                              !.response = Redirect(CallbackTarget(request.type)) ]
    /\ UNCHANGED << component, remote, event >>

\* The browser follows the redirect to the dashboard.
follow ==
    /\ request.pc = "done"
    /\ request.response = Redirect("/dashboard")
    /\ request' = NewRequest("dashboard", <<>>, <<>>)
    /\ UNCHANGED << component, remote, event, session >>

\* ------------------------------------------------------------------ dashboard page (page.tsx)
\* Lines 5-20: getUser(), then redirect('/login') or the select, to its await.
DashboardPage ==
    /\ request.route = "dashboard"
    /\ request.pc = "start"
    /\ LET user == session
       IN  IF user = NoUser
           THEN request' = [ request EXCEPT
                               !.pc = "done",
                               !.response = Redirect("/login") ]
           ELSE request' = [ request EXCEPT
                               !.pc = "select",
                               !.user = user,
                               !.queries = 1 ]
    /\ UNCHANGED << component, remote, event, session >>

\* Lines 16-46: after the select; the page is rendered and TodoList mounted
\* with initialTodos={todos || []} and the user.
DashboardPageRender ==
    /\ request.route = "dashboard"
    /\ request.pc = "select"
    /\ \E fetchError \in BOOLEAN :
        /\ request' = [ request EXCEPT
                          !.pc = "done",
                          !.error = fetchError,
                          !.response = Page ]
        /\ todos' = InitialTodos(store, fetchError)
    /\ title' = <<>>
    /\ description' = <<>>
    /\ editingId' = NullId
    /\ editTitle' = <<>>
    /\ editDescription' = <<>>
    /\ loading' = FALSE
    /\ event' = Local("mount", NoArg)
    /\ UNCHANGED << remote, session >>

\* ------------------------------------------------------------------ page requests: specification
\* Number of rows of the signed-in user the table may hold at a page request.
MaxRows == 3

\* A browser requests the callback or the dashboard, with or without a
\* session, against a table of any rows.
LoaderInit ==
    \E ids \in SUBSET (1..MaxRows), foreign \in BOOLEAN,
       user \in { NoUser, UserId },
       route \in { "callback", "dashboard" },
       code \in Codes, type \in Types :
        /\ route = "dashboard" => (code = <<>> /\ type = <<>>)
        /\ store = { SeedRow(i) : i \in ids }
                     \cup (IF foreign THEN { ForeignRow } ELSE {})
        /\ nextId = MaxRows + 1
        /\ clock = MaxRows
        /\ session = user
        /\ request = NewRequest(route, code, type)
        /\ todos = <<>>
        /\ title = <<>>
        /\ description = <<>>
        /\ editingId = NullId
        /\ editTitle = <<>>
        /\ editDescription = <<>>
        /\ loading = FALSE
        /\ inflight = {}
        /\ calls = 0
        /\ event = Local("request", NoArg)

LoaderNext ==
    \/ GET
    \/ GETResume
    \/ follow
    \/ DashboardPage
    \/ DashboardPageRender

LoaderSpec == LoaderInit /\ [][LoaderNext]_vars

\* ------------------------------------------------------------------ specification
Next ==
    \/ setTitle
    \/ setDescription
    \/ setEditTitle
    \/ setEditDescription
    \/ startEdit
    \/ cancelEdit
    \/ handleCreate
    \/ handleCreateResume
    \/ handleUpdate
    \/ handleUpdateResume
    \/ handleDelete
    \/ handleDeleteResume
    \/ handleToggleComplete
    \/ handleToggleCompleteResume

Spec == Init /\ [][Next]_vars

\* The store answers every call: the await of each handler ends.
StoreAnswers ==
    /\ WF_vars(handleCreateResume)
    /\ WF_vars(handleUpdateResume)
    /\ WF_vars(handleDeleteResume)
    /\ WF_vars(handleToggleCompleteResume)

FairSpec == Spec /\ StoreAnswers

\* ------------------------------------------------------------------ steps, as seen in event
\* The step is the continuation of handler `name` after its await.
Resumes(name) ==
    /\ event'.name = name
    /\ event'.phase = "resume"
    /\ event'.call \in inflight

ResumesOk(name)    == Resumes(name) /\ ~event'.error
ResumesError(name) == Resumes(name) /\ event'.error

\* The step is handler `name` running from its start to its return or await.
Starts(name) ==
    /\ event'.name = name
    /\ event'.phase \in { "return", "await" }

Ids(list) == { list[i].id : i \in 1..Len(list) }

\* ------------------------------------------------------------------ C1
\* C1: when the insert of a Create succeeds, the list becomes the record the
\* store returned (carrying the id and the timestamps the store assigned, and
\* the trimmed title that was submitted) followed by the previous list, one
\* entry longer, and the create form's title and description are empty.
C1_CreatePrepends ==
    [][ ResumesOk("handleCreate") =>
          LET data == event'.data
          IN  /\ todos' = <<data>> \o todos
              /\ Len(todos') = Len(todos) + 1
              /\ data.id = nextId
              /\ data.id \notin Ids(todos)
              /\ data.created_at = clock
              /\ data.updated_at = clock
              /\ data \in store'
              /\ data.title = Trim(title)
              /\ data.title # <<>>
              /\ title' = <<>>
              /\ description' = <<>> ]_vars

\* A create has succeeded on a non-empty list: the new record is in front.
C1_Witness ==
    /\ event.name = "handleCreate"
    /\ event.phase = "resume"
    /\ ~event.error
    /\ Len(todos) >= 2
    /\ todos[1] = event.data
    /\ title = <<>>
    /\ description = <<>>

\* ------------------------------------------------------------------ C2
\* C2: a Create submitted with an empty or whitespace-only title issues no
\* store call and leaves the list, both forms, the editing target and the
\* busy flag as they were.
C2_BlankCreateIsNoop ==
    [][ (Starts("handleCreate") /\ Trim(title) = <<>>) =>
          /\ UNCHANGED << todos, title, description, editingId, editTitle,
                          editDescription, loading >>
          /\ UNCHANGED << calls, inflight, store >> ]_vars

\* A whitespace-only title has been submitted while a record was being edited.
C2_Witness ==
    /\ event.name = "handleCreate"
    /\ event.phase = "return"
    /\ title = <<" ">>
    /\ description # <<>>
    /\ editingId # NullId
    /\ todos # <<>>

\* ------------------------------------------------------------------ C3
\* C3: when an Update of record r succeeds, the list keeps its length and its
\* order of ids; the entry with r's id becomes the record the store returned,
\* which carries the trimmed edit title, the trimmed-or-null edit description
\* and the timestamp sent; every other entry is unchanged.
C3_UpdateReplacesInPlace ==
    [][ ResumesOk("handleUpdate") =>
          LET data == event'.data
              call == event'.call
          IN  /\ Len(todos') = Len(todos)
              /\ \A i \in 1..Len(todos) :
                    /\ todos'[i].id = todos[i].id
                    /\ todos[i].id = call.id => todos'[i] = data
                    /\ todos[i].id # call.id => todos'[i] = todos[i]
              /\ call.id \in Ids(todos)
              /\ data.id = call.id
              /\ data.title = Trim(editTitle)
              /\ data.description = TrimOrNull(editDescription)
              /\ data.updated_at = call.fields.updated_at ]_vars

\* An update has succeeded on a list of several records and changed a title.
C3_Witness ==
    /\ event.name = "handleUpdate"
    /\ event.phase = "resume"
    /\ ~event.error
    /\ Len(todos) >= 2
    /\ \E i \in 1..Len(todos) :
          /\ todos[i] = event.data
          /\ event.call.todos[i].id = event.data.id
          /\ event.call.todos[i].title # event.data.title
          /\ event.call.todos[i].updated_at < event.data.updated_at

\* ------------------------------------------------------------------ C4
\* C4: an Update clears the edit state only when the store update succeeds.
\* After a failed Update the editing target and the edit fields are what they
\* were (still the record and the values the request was made from); after a
\* successful one the editing target is null and the edit fields are empty.
C4_EditClearedOnlyOnSuccess ==
    [][ Resumes("handleUpdate") =>
          IF event'.error
          THEN /\ UNCHANGED << editingId, editTitle, editDescription >>
               /\ editingId' = event'.call.id
               /\ Trim(editTitle') = event'.call.fields.title
               /\ TrimOrNull(editDescription') = event'.call.fields.description
          ELSE /\ editingId' = NullId
               /\ editTitle' = <<>>
               /\ editDescription' = <<>> ]_vars

\* An update has failed and the record is still being edited.
C4_Witness ==
    /\ event.name = "handleUpdate"
    /\ event.phase = "resume"
    /\ event.error
    /\ editingId = event.call.id
    /\ \E todo \in Rendered : InEditView(todo)
    /\ Trim(editTitle) # <<>>
    /\ ~loading

\* ------------------------------------------------------------------ C5
\* C5: an update call is issued only by Save, for the record being edited,
\* with an edit title that is non-empty after trimming; Save with an empty
\* or whitespace-only edit title issues no call and leaves the list, the edit
\* state and the busy flag as they were.
C5_UpdateNeedsTargetAndTitle ==
    [][ /\ \A call \in inflight' \ inflight :
              call.op = "update" =>
                  /\ Starts("handleUpdate")
                  /\ editingId # NullId
                  /\ call.id = editingId
                  /\ editingId \in Ids(todos)
                  /\ Trim(editTitle) # <<>>
                  /\ call.fields.title = Trim(editTitle)
        /\ (Starts("handleUpdate") /\ Trim(editTitle) = <<>>) =>
              /\ UNCHANGED << todos, editingId, editTitle, editDescription,
                              loading >>
              /\ UNCHANGED << calls, inflight, store >> ]_vars

\* Save has been pressed on a whitespace-only edit title.
C5_Witness ==
    /\ event.name = "handleUpdate"
    /\ event.phase = "return"
    /\ editTitle = <<" ">>
    /\ editingId \in Ids(todos)
    /\ ~loading

\* ------------------------------------------------------------------ C6
\* C6: when a Toggle of record r succeeds, exactly one entry of the list has
\* r's id; it becomes the record the store returned, whose completed is the
\* negation of the entry's and whose updated_at is the newer timestamp sent;
\* every other entry, the length and the order are unchanged.
C6_ToggleFlipsOne ==
    [][ ResumesOk("handleToggleComplete") =>
          LET data == event'.data
              call == event'.call
          IN  /\ Len(todos') = Len(todos)
              /\ Cardinality({ i \in 1..Len(todos) : todos[i].id = call.id }) = 1
              /\ \A i \in 1..Len(todos) :
                    IF todos[i].id = call.id
                    THEN /\ todos'[i] = data
                         /\ data.id = call.id
                         /\ data.completed = ~todos[i].completed
                         /\ data.updated_at = call.fields.updated_at
                         /\ data.updated_at > todos[i].updated_at
                    ELSE todos'[i] = todos[i] ]_vars

\* The list held one record with completed = false; after the toggle it
\* holds that record with completed = true.
C6_Witness ==
    /\ event.name = "handleToggleComplete"
    /\ event.phase = "resume"
    /\ ~event.error
    /\ Len(event.call.todos) = 1
    /\ ~event.call.todos[1].completed
    /\ Len(todos) = 1
    /\ todos[1].id = event.call.todos[1].id
    /\ todos[1].title = event.call.todos[1].title
    /\ todos[1].completed

\* ------------------------------------------------------------------ C7
\* C7: a delete call is issued only by Delete after the user confirmed, for
\* the record the button belongs to; when it succeeds the list loses exactly
\* the entry with that id and keeps the others in order; when the user
\* declines, no call is issued and the list and the busy flag are unchanged.
C7_DeleteAfterConfirmation ==
    [][ /\ \A call \in inflight' \ inflight :
              call.op = "delete" =>
                  /\ Starts("handleDelete")
                  /\ event'.arg.confirmed
                  /\ call.id = event'.arg.id
                  /\ call.id \in Ids(todos)
        /\ (Starts("handleDelete") /\ ~event'.arg.confirmed) =>
              /\ UNCHANGED << todos, loading >>
              /\ UNCHANGED << calls, inflight, store >>
        /\ ResumesOk("handleDelete") =>
              LET id == event'.call.id
              IN  /\ id \in Ids(todos)
                  /\ todos' = SelectSeq(todos, LAMBDA t : t.id # id)
                  /\ Len(todos') = Len(todos) - 1
                  /\ id \notin Ids(todos') ]_vars

\* A confirmed delete has succeeded and left the other records in the list.
C7_Witness ==
    /\ event.name = "handleDelete"
    /\ event.phase = "resume"
    /\ ~event.error
    /\ Len(todos) >= 1
    /\ Len(event.call.todos) = Len(todos) + 1
    /\ event.call.id \notin Ids(todos)

\* ------------------------------------------------------------------ C8
\* C8: when the store call of Create, Update, Delete or Toggle fails, the
\* list is what it was, and what it was when the call was issued; after a
\* failed Create the create form still holds the title and the description
\* that were submitted.
C8_FailureKeepsList ==
    [][ ( /\ event'.phase = "resume"
          /\ event'.call \in inflight
          /\ event'.error ) =>
          /\ todos' = todos
          /\ todos' = event'.call.todos
          /\ event'.name = "handleCreate" =>
                /\ UNCHANGED << title, description >>
                /\ Trim(title') = event'.call.fields.title
                /\ Trim(title') # <<>>
                /\ TrimOrNull(description') = event'.call.fields.description ]_vars

\* A create has failed on a non-empty list; the form is still filled in.
C8_Witness ==
    /\ event.name = "handleCreate"
    /\ event.phase = "resume"
    /\ event.error
    /\ Trim(title) # <<>>
    /\ Trim(description) # <<>>
    /\ todos # <<>>
    /\ todos = event.call.todos

\* ------------------------------------------------------------------ C9
\* C9: while a call is in flight the list is the one the call was issued
\* from, and the list changes only in the step that handles a successful
\* answer, which merges the answer into that list by id: the returned record
\* put in front, put in place of the entry with its id, or that entry removed.
C9_NoOptimisticMutation ==
    [][ /\ \A call \in inflight : call.todos = todos
        /\ todos' # todos =>
              /\ event'.phase = "resume"
              /\ event'.call \in inflight
              /\ ~event'.error
              /\ LET call == event'.call
                     data == event'.data
                 IN  \/ /\ call.op = "insert"
                        /\ todos' = <<data>> \o todos
                     \/ /\ call.op \in { "update", "toggle" }
                        /\ data.id = call.id
                        /\ todos' = [ i \in 1..Len(todos) |->
                                        IF todos[i].id = call.id THEN data
                                        ELSE todos[i] ]
                     \/ /\ call.op = "delete"
                        /\ todos' = SelectSeq(todos, LAMBDA t : t.id # call.id)
      ]_vars

\* A second call is in flight after a first one changed the list.
C9_Witness ==
    /\ inflight # {}
    /\ calls = MaxRequests
    /\ Len(todos) >= 2
    /\ \A call \in inflight : call.todos = todos /\ call.op # "insert"

\* ------------------------------------------------------------------ C10
\* C10: at most one store call is in flight at any time, and the busy flag
\* is set exactly while one is.
C10_OneCallInFlight ==
    /\ Cardinality(inflight) <= 1
    /\ loading <=> inflight # {}

\* A call is in flight and the busy flag is set, after an earlier call.
C10_Witness ==
    /\ loading
    /\ Cardinality(inflight) = 1
    /\ calls = MaxRequests

\* ------------------------------------------------------------------ C11
\* C11: every record of the list has a title that is non-empty after
\* trimming, in every reachable state, whatever Create, Update, Toggle and
\* Delete did and whether their store calls succeeded or failed.
C11_TitlesNeverBlank ==
    \A i \in 1..Len(todos) : Trim(todos[i].title) # <<>>

\* The list holds a created record and a record whose title an Update set.
C11_Witness ==
    /\ event.name = "handleUpdate"
    /\ event.phase = "resume"
    /\ ~event.error
    /\ Len(todos) >= 2
    /\ \A i \in 1..Len(todos) : todos[i].title = <<"a">>

\* ------------------------------------------------------------------ C12
\* C12: the insert a Create sends carries the trimmed title, the trimmed
\* description or null when that is empty, completed = false and the current
\* user's id as owner; the updates Update and Toggle send carry no owner, id
\* or created_at, and no row's owner, id or created_at changes when they are
\* applied.
C12_InsertPayloadAndImmutables ==
    [][ /\ \A call \in inflight' \ inflight :
              /\ call.op = "insert" =>
                    /\ call.fields.title = Trim(title)
                    /\ call.fields.description =
                          (IF Trim(description) = <<>> THEN NULL
                           ELSE Trim(description))
                    /\ call.fields.completed = FALSE
                    /\ call.fields.user_id = UserId
              /\ call.op = "update" =>
                    DOMAIN call.fields = { "title", "description", "updated_at" }
              /\ call.op = "toggle" =>
                    DOMAIN call.fields = { "completed", "updated_at" }
        /\ (Resumes("handleUpdate") \/ Resumes("handleToggleComplete")) =>
              /\ { r.id : r \in store' } = { r.id : r \in store }
              /\ \A r \in store : \E q \in store' :
                    /\ q.id = r.id
                    /\ q.user_id = r.user_id
                    /\ q.created_at = r.created_at
        /\ ResumesOk("handleCreate") =>
              /\ event'.data.title = event'.call.fields.title
              /\ event'.data.description = event'.call.fields.description
              /\ event'.data.completed = FALSE
              /\ event'.data.user_id = UserId ]_vars

\* An insert is in flight for a padded title and a whitespace-only
\* description: it carries the trimmed title and a null description.
C12_Witness ==
    /\ title = <<" ", "a", " ">>
    /\ description = <<" ">>
    /\ \E call \in inflight :
          /\ call.op = "insert"
          /\ call.fields.title = <<"a">>
          /\ call.fields.description = NULL
          /\ call.fields.completed = FALSE
          /\ call.fields.user_id = UserId

\* ------------------------------------------------------------------ C13
\* C13: a dashboard request served without a current user ends in a redirect
\* to the login path with no store query issued and no page rendered; a
\* query is issued only for a current user, and what it hands to the page is
\* that user's rows, all of them and no others, newest created first.
C13_LoaderGate ==
    /\ (request.route = "dashboard" /\ request.pc # "start" /\ session = NoUser) =>
          /\ request.pc = "done"
          /\ request.response = Redirect("/login")
          /\ request.queries = 0
          /\ todos = <<>>
    /\ request.queries > 0 =>
          /\ request.route = "dashboard"
          /\ session # NoUser
          /\ request.user = session
    /\ (request.response = Page /\ ~request.error) =>
          /\ Rendered = { r \in store : r.user_id = request.user }
          /\ Len(todos) = Cardinality(Rendered)
          /\ \A i, j \in 1..Len(todos) :
                i < j => todos[i].created_at >= todos[j].created_at

\* A request without a session was redirected to the login path although
\* the table holds rows of the user.
C13_Witness ==
    /\ request.route = "dashboard"
    /\ request.pc = "done"
    /\ session = NoUser
    /\ request.response = Redirect("/login")
    /\ request.queries = 0
    /\ \E r \in store : r.user_id = UserId

\* ------------------------------------------------------------------ C14
\* C14: when the select fails for a signed-in user, the loader neither
\* redirects nor stops: the page is rendered and the list component mounted
\* with an empty list and the user's identity.
C14_FetchErrorGivesEmptyList ==
    (request.route = "dashboard" /\ request.pc = "done" /\ request.error) =>
        /\ request.queries = 1
        /\ request.response = Page
        /\ request.user = session
        /\ request.user # NoUser
        /\ todos = <<>>
        /\ event = Local("mount", NoArg)
        /\ ~loading
        /\ editingId = NullId

\* The select failed on a table holding rows of the user; the page is
\* rendered with an empty list.
C14_Witness ==
    /\ request.route = "dashboard"
    /\ request.pc = "done"
    /\ request.error
    /\ request.response = Page
    /\ todos = <<>>
    /\ request.user = UserId
    /\ \E r \in store : r.user_id = UserId

\* ------------------------------------------------------------------ C15
\* C15 as stated: the exchange is attempted exactly when a code parameter is
\* present; the response is a redirect to the reset-password path iff type
\* is "recovery" and to the dashboard path otherwise.
C15_ExchangeIffCodePresent ==
    (request.route = "callback" /\ request.pc = "done") =>
        /\ request.exchanges = 1 <=> request.code # <<>>
        /\ request.response =
              Redirect(IF request.type = <<"recovery">> THEN "/reset-password"
                       ELSE "/dashboard")

\* C15, amended: the exchange is attempted exactly when a code parameter is
\* present and not the empty string, and it is over before the response is
\* given; the response is a redirect to the reset-password path iff type is
\* exactly "recovery" and to the dashboard path otherwise, whether or not a
\* code was present and whether or not the exchange succeeded.
C15_ExchangeIffCodeNonEmpty ==
    /\ request.route = "callback" =>
          /\ request.pc = "exchange" =>
                /\ request.exchanges = 1
                /\ request.response = NoResponse
          /\ request.pc = "done" =>
                /\ request.exchanges = 1 <=>
                      (request.code # <<>> /\ request.code # <<"">>)
                /\ request.exchanges \in { 0, 1 }
                /\ request.response =
                      Redirect(IF request.type = <<"recovery">>
                               THEN "/reset-password" ELSE "/dashboard")
          /\ request.queries = 0
    /\ request.response # NoResponse => request.pc = "done"

\* A recovery callback whose exchange failed: the redirect goes to the
\* reset-password path all the same.
C15_Witness ==
    /\ request.route = "callback"
    /\ request.pc = "done"
    /\ request.exchanges = 1
    /\ request.error
    /\ request.type = <<"recovery">>
    /\ request.response = Redirect("/reset-password")
    /\ session = NoUser

\* ------------------------------------------------------------------ C16
\* C16: Start edit and Cancel edit issue no store call and leave the list,
\* the busy flag and the create form as they were.  Start edit on a record
\* of the list makes its id the editing target and fills the edit fields
\* with its title and its description, the empty string when that is null;
\* Cancel edit makes the editing target null and empties the edit fields.
C16_EditTransitionsAreLocal ==
    [][ /\ Starts("startEdit") =>
              /\ UNCHANGED << todos, loading, title, description >>
              /\ UNCHANGED << calls, inflight, store >>
              /\ \E i \in 1..Len(todos) :
                    /\ editingId' = todos[i].id
                    /\ editTitle' = todos[i].title
                    /\ editDescription' =
                          (IF todos[i].description = NULL THEN <<>>
                           ELSE todos[i].description)
        /\ Starts("cancelEdit") =>
              /\ UNCHANGED << todos, loading, title, description >>
              /\ UNCHANGED << calls, inflight, store >>
              /\ editingId' = NullId
              /\ editTitle' = <<>>
              /\ editDescription' = <<>> ]_vars

\* Edit has been pressed on a record whose description is null, in a list
\* of several records: the edit description is the empty string.
C16_Witness ==
    /\ event.name = "startEdit"
    /\ Len(todos) >= 2
    /\ \E i \in 1..Len(todos) :
          /\ editingId = todos[i].id
          /\ todos[i].description = NULL
          /\ editTitle = todos[i].title
          /\ editDescription = <<>>

\* ------------------------------------------------------------------ C17
\* C17: provided the store answers, a set busy flag is always followed by a
\* state in which it is clear, no call is in flight and the controls are
\* enabled again; the step that handles an answer clears the flag whether
\* the answer is an error or not, in the same step in which the list is
\* reconciled.
C17_BusyFlagIsCleared ==
    /\ [][ (event'.phase = "resume" /\ event'.call \in inflight) =>
              ~loading' ]_vars
    /\ loading ~> (~loading /\ inflight = {} /\ SubmitEnabled /\ CheckboxEnabled
                     /\ DeleteEnabled /\ EditEnabled)

\* A call has failed and the busy flag is clear again.
C17_Witness ==
    /\ event.phase = "resume"
    /\ event.error
    /\ ~loading
    /\ inflight = {}
    /\ calls = MaxRequests

C19_EditTargetInList ==
    /\ \A i, j \in 1..Len(todos) : todos[i].id = todos[j].id => i = j
    /\ \/ editingId = NullId
       \/ Cardinality({ i \in 1..Len(todos) : InEditView(todos[i]) }) = 1

\* A delete of another record has succeeded while a record is being edited.
C19_Witness ==
    /\ event.name = "handleDelete"
    /\ event.phase = "resume"
    /\ ~event.error
    /\ editingId # NullId
    /\ \E todo \in Rendered : InEditView(todo)

\* ------------------------------------------------------------------ C20
\* C20: the list is ordered by created_at descending: every record's
\* created_at is no earlier than that of the record that follows it.
C20_OrderedByCreatedDesc ==
    \A i \in 1..(Len(todos) - 1) : todos[i].created_at >= todos[i + 1].created_at

\* A create has prepended its row to a list that held a record, and a later
\* call on that list has been answered.
C20_Witness ==
    /\ Len(todos) >= 2
    /\ todos[1].created_at > todos[2].created_at
    /\ event.phase = "resume"
    /\ ~event.error
    /\ event.name # "handleCreate"

====
